---- MODULE Spec2Model ----
(***************************************************************************)
(* The subscription / credit synchronisation core of src/src/App.tsx:      *)
(* App's credits effect (initializeAndSubscribe, the "credits" channel and *)
(* the onSolutionSuccess debit handler) and AppContent's auth and          *)
(* subscription effects, run against a record gateway (the subscriptions   *)
(* table), its change feed and the authentication state.                   *)
(*                                                                         *)
(* Every await of the source is a step boundary: a task is suspended at a  *)
(* pc and the step that resumes it runs the synchronous code up to the     *)
(* next await.  React state is modelled by the value last set; the value   *)
(* an effect closure captured is kept separately (renderedInit, the init   *)
(* field of runs and listeners).                                           *)
(***************************************************************************)
EXTENDS Integers, Sequences, FiniteSets, TLC

\* ------------------------------------------------------------- bounds
MaxCredits == 1       \* credits the billing process writes: 0..MaxCredits
MaxOps == 2           \* external stimuli in one run: success signals, record
                      \* changes by the billing process, auth changes, failed requests
MaxFeed == 1          \* change events in flight on the socket
MaxLangTasks == 1     \* calls of handleLanguageChange in progress at once

\* ------------------------------------------------------------- values
NoUser == "none"
Users == {"A", "B"}
Langs == {"python", "java"}

\* data === null of a supabase result, and a row of the subscriptions table
Null == [present |-> FALSE, credits |-> 0, lang |-> "python"]
Row(c, l) == [present |-> TRUE, credits |-> c, lang |-> l]

\* a request to the gateway is answered, or fails (network, transient)
ReadOutcomes == {"ok", "fail"}

VARIABLES
  authUser,            \* supabase.auth: the signed-in user or NoUser
  db,                  \* subscriptions table: user -> row or Null
  feed,                \* change events sent by the gateway, not yet received
  credits, currentLanguage, isInitialized,   \* App state
  winCredits, winLanguage, winInit,          \* window.__CREDITS__ etc.
  renderedInit,        \* isInitialized of App's last committed render
  runs,                \* the calls of initializeAndSubscribe
  channels,            \* subscribed realtime channels
  listeners,           \* callbacks registered with onSolutionSuccess
  debits,              \* suspended onSolutionSuccess handlers
  acUser, loading, subscriptionLoading,      \* AppContent state
  isSubscribed, acCredits, acLanguage,
  acTasks,             \* suspended checkSubscriptionAndCredits / feed handlers
  console,             \* the last console.warn / console.error of the debit handler
  langTasks,           \* calls of handleLanguageChange that have not returned
  triggers,            \* calls of window.electronAPI.triggerProcessScreenshots so far
  toastOpen,           \* toastState.open
  numSignals,          \* occurrences of the success signal so far
  ops,                 \* external stimuli so far
  flips                \* false->true changes of isInitialized since the last auth change

vars == <<authUser, db, feed, credits, currentLanguage, isInitialized,
          winCredits, winLanguage, winInit, renderedInit, runs, channels,
          listeners, debits, acUser, loading, subscriptionLoading,
          isSubscribed, acCredits, acLanguage, acTasks, console, toastOpen,
          langTasks, triggers, numSignals, ops, flips>>

\* ------------------------------------------------------------- gateway
\* .select(...).eq("user_id", u).single() / .maybeSingle(): the row, or data null
\* when there is none or the request failed (the error is not looked at).
ReadRecord(u, out) ==
  IF out = "ok" /\ u \in Users THEN db[u] ELSE Null

\* the channels a change of user u's row is sent to
AppChan(i, u) == [kind |-> "credits", user |-> u, id |-> i]
AcChan(u) == [kind |-> "sub", user |-> u, id |-> 0]

Matches(c, type, u) ==
  IF c.kind = "credits"
    THEN type = "UPDATE" /\ c.user = u
    ELSE c.user = NoUser \/ c.user = u

Emit(type, u, new) ==
  LET to == {c \in channels : Matches(c, type, u)}
  IN IF to = {} THEN feed
     ELSE Append(feed, [type |-> type, user |-> u, new |-> new, to |-> to])

\* a failed request is one of the run's external stimuli
Charge(out) ==
  IF out = "fail" THEN ops < MaxOps /\ ops' = ops + 1 ELSE ops' = ops

\* ------------------------------------------------------------- App helpers
\* a helper that forgets the published slot
updateCreditsLocalOnly(c) == credits' = c /\ UNCHANGED winCredits

updateCredits(c) == credits' = c /\ winCredits' = c

updateLanguage(l) == currentLanguage' = l /\ winLanguage' = l

markInitialized ==
  /\ isInitialized' = TRUE
  /\ winInit' = TRUE
  /\ flips' = IF isInitialized THEN flips ELSE flips + 1

\* the default of AppContent (?? 0) used in App
InitialCreditsZeroDefault(sub) == IF sub.present THEN sub.credits ELSE 0

\* subscription?.credits ?? 1 and subscription?.preferred_language ?? "python"
InitialCredits(sub) == IF sub.present THEN sub.credits ELSE 1
InitialLanguage(sub) == IF sub.present THEN sub.lang ELSE "python"

\* ------------------------------------------------------------- Init
Init ==
  /\ authUser \in {NoUser, "A"}
  /\ db \in [Users -> {Null} \cup {Row(c, "java") : c \in 0..MaxCredits}]
  /\ db["B"] = Row(1, "java")
  /\ feed = <<>>
  /\ credits = 0 /\ currentLanguage = "python" /\ isInitialized = FALSE
  /\ winCredits = 0 /\ winLanguage = "python" /\ winInit = FALSE
  /\ renderedInit = FALSE
  /\ runs = <<[pc |-> "getUser", init |-> FALSE, user |-> NoUser]>>
  /\ channels = {AcChan(NoUser)}
  /\ listeners = <<>>
  /\ debits = {}
  /\ acUser = NoUser /\ loading = TRUE /\ subscriptionLoading = FALSE
  /\ isSubscribed = FALSE /\ acCredits = 0 /\ acLanguage = "python"
  /\ acTasks = {}
  /\ console = "" /\ toastOpen = FALSE
  /\ langTasks = {} /\ triggers = 0
  /\ numSignals = 0 /\ ops = 0
  /\ flips = 0

\* ------------------------------------------------------------- App: credits effect
\* The effect (deps: ..., isInitialized) runs after the mount and after every
\* commit whose isInitialized differs from the previous commit's.  It calls
\* initializeAndSubscribe() and returns nothing: the cleanup function is the
\* value of the promise, which React never sees, so no cleanup ever runs.
AppRender ==
  /\ renderedInit # isInitialized
  /\ renderedInit' = isInitialized
  /\ runs' = Append(runs, [pc |-> "getUser", init |-> isInitialized,
                           user |-> NoUser])
  /\ UNCHANGED <<authUser, db, feed, credits, currentLanguage, isInitialized,
                 winCredits, winLanguage, winInit, channels, listeners, debits,
                 acUser, loading, subscriptionLoading, isSubscribed, acCredits,
                 acLanguage, acTasks, numSignals, ops, flips>>
  /\ UNCHANGED <<console, toastOpen>>
  /\ UNCHANGED <<langTasks, triggers>>

\* await supabase.auth.getUser() resolves
RunGetUser(i) ==
  /\ runs[i].pc = "getUser"
  /\ IF authUser = NoUser
       THEN /\ updateCredits(1)
            /\ updateLanguage("python")
            /\ markInitialized
            /\ runs' = [runs EXCEPT ![i].pc = "done"]
       ELSE /\ runs' = [runs EXCEPT ![i].pc = "read", ![i].user = authUser]
            /\ UNCHANGED <<credits, currentLanguage, isInitialized, winCredits,
                           winLanguage, winInit, flips>>
  /\ UNCHANGED <<authUser, db, feed, renderedInit, channels, listeners, debits,
                 acUser, loading, subscriptionLoading, isSubscribed, acCredits,
                 acLanguage, acTasks, numSignals, ops>>
  /\ UNCHANGED <<console, toastOpen>>
  /\ UNCHANGED <<langTasks, triggers>>

\* the initial fetch resolves; the rest of initializeAndSubscribe is synchronous:
\* set the values, mark initialized, subscribe channel "credits", register the
\* success listener (which captures user and this render's isInitialized)
RunRead(i, out) ==
  /\ runs[i].pc = "read"
  /\ Charge(out)
  /\ LET u == runs[i].user
         sub == ReadRecord(u, out)
     IN /\ updateCredits(InitialCredits(sub))
        /\ updateLanguage(InitialLanguage(sub))
        /\ markInitialized
        /\ channels' = channels \cup {AppChan(i, u)}
        /\ listeners' = Append(listeners, [user |-> u, init |-> runs[i].init])
        /\ runs' = [runs EXCEPT ![i].pc = "done"]
  /\ UNCHANGED <<authUser, db, feed, renderedInit, debits,
                 acUser, loading, subscriptionLoading, isSubscribed, acCredits,
                 acLanguage, acTasks, numSignals>>
  /\ UNCHANGED <<console, toastOpen>>
  /\ UNCHANGED <<langTasks, triggers>>

\* ------------------------------------------------------------- App: debit
\* the handler without its initialization guard
GuardPassesAlways(init) == TRUE

\* if (!isInitialized) { console.warn(...); return }   (the captured value)
GuardPasses(init) == init

\* the update writing back the value it read
DecrementedCreditsSame(n) == n

\* .update({ credits: currentSubscription.credits - 1 })
DecrementedCredits(n) == n - 1

NewDebit(i) ==
  [sig |-> numSignals + 1, lid |-> i, user |-> listeners[i].user,
   pc |-> "read", n |-> 0, ret |-> 0, err |-> FALSE]

\* one occurrence of the solution-success signal: every registered callback is
\* called; each runs to its first await (the read of the current credits)
Signal ==
  /\ ops < MaxOps
  /\ ops' = ops + 1
  /\ numSignals' = numSignals + 1
  /\ debits' = debits \cup
       {NewDebit(i) : i \in {j \in 1..Len(listeners) : GuardPasses(listeners[j].init)}}
  /\ console' = IF \E j \in 1..Len(listeners) : ~GuardPasses(listeners[j].init)
                  THEN "warn: before initialization" ELSE console
  /\ UNCHANGED <<authUser, db, feed, credits, currentLanguage, isInitialized,
                 winCredits, winLanguage, winInit, renderedInit, runs, channels,
                 listeners, acUser, loading, subscriptionLoading, isSubscribed,
                 acCredits, acLanguage, acTasks, flips>>
  /\ UNCHANGED toastOpen
  /\ UNCHANGED <<langTasks, triggers>>

\* the handler going on to the update whatever the read returned
DebitAbortsNever(sub) == FALSE

\* if (!currentSubscription) { console.error(...); return }
DebitAborts(sub) == ~sub.present

\* the read of the current credits resolves
DebitRead(d, out) ==
  /\ d \in debits /\ d.pc = "read"
  /\ Charge(out)
  /\ LET sub == ReadRecord(d.user, out)
     IN IF DebitAborts(sub)
          THEN /\ debits' = debits \ {d}
               /\ console' = "error: no subscription"
          ELSE /\ debits' = (debits \ {d}) \cup
                            {[d EXCEPT !.pc = "update", !.n = sub.credits]}
               /\ UNCHANGED console
  /\ UNCHANGED <<authUser, db, feed, credits, currentLanguage, isInitialized,
                 winCredits, winLanguage, winInit, renderedInit, runs, channels,
                 listeners, acUser, loading, subscriptionLoading, isSubscribed,
                 acCredits, acLanguage, acTasks, numSignals, flips>>
  /\ UNCHANGED toastOpen
  /\ UNCHANGED <<langTasks, triggers>>

\* an update that decrements whatever the record holds when it executes
UpdatedCreditsAtomic(n, cur) == cur - 1

\* .update({ credits: currentSubscription.credits - 1 }): the value written is
\* computed from the credits the handler read (n), not from the credits the
\* record holds when the update executes (cur)
UpdatedCredits(n, cur) == DecrementedCredits(n)

\* the gateway executes the update (or the request fails, or no row matches
\* and .single() yields an error)
DebitUpdate(d, out) ==
  /\ d \in debits /\ d.pc = "update"
  /\ Charge(out)
  /\ Len(feed) < MaxFeed
  /\ IF out = "ok" /\ db[d.user].present
       THEN LET new == [db[d.user] EXCEPT
                             !.credits = UpdatedCredits(d.n, db[d.user].credits)]
            IN /\ db' = [db EXCEPT ![d.user] = new]
               /\ feed' = Emit("UPDATE", d.user, new)
               /\ debits' = (debits \ {d}) \cup
                            {[d EXCEPT !.pc = "resp", !.ret = new.credits]}
       ELSE /\ debits' = (debits \ {d}) \cup {[d EXCEPT !.pc = "resp", !.err = TRUE]}
            /\ UNCHANGED <<db, feed>>
  /\ UNCHANGED <<authUser, credits, currentLanguage, isInitialized,
                 winCredits, winLanguage, winInit, renderedInit, runs, channels,
                 listeners, acUser, loading, subscriptionLoading, isSubscribed,
                 acCredits, acLanguage, acTasks, numSignals, flips>>
  /\ UNCHANGED <<console, toastOpen>>
  /\ UNCHANGED <<langTasks, triggers>>

\* the update's response arrives: if (error) return; updateCredits(returned)
DebitResolve(d) ==
  /\ d \in debits /\ d.pc = "resp"
  /\ debits' = debits \ {d}
  /\ IF d.err
       THEN /\ console' = "error: updating credits"
            /\ UNCHANGED <<credits, winCredits>>
       ELSE /\ updateCredits(d.ret)
            /\ UNCHANGED console
  /\ UNCHANGED <<authUser, db, feed, currentLanguage, isInitialized,
                 winLanguage, winInit, renderedInit, runs, channels,
                 listeners, acUser, loading, subscriptionLoading, isSubscribed,
                 acCredits, acLanguage, acTasks, numSignals, ops, flips>>
  /\ UNCHANGED toastOpen
  /\ UNCHANGED <<langTasks, triggers>>

\* ------------------------------------------------------------- AppContent
\* setIsSubscribed(!!subscription); setCredits(subscription?.credits ?? 0);
\* what AppContent's handlers write: its three states and window.__LANGUAGE__
AcState == [isSubscribed |-> isSubscribed, credits |-> acCredits,
            lang |-> acLanguage, slot |-> winLanguage]

SetAcState(s) ==
  /\ isSubscribed' = s.isSubscribed
  /\ acCredits' = s.credits
  /\ acLanguage' = s.lang
  /\ winLanguage' = s.slot

\* setIsSubscribed(!!subscription); setCredits(subscription?.credits ?? 0);
\* if (subscription?.preferred_language) { setCurrentLanguage; window.__LANGUAGE__ }
SubscriptionState(s, sub) ==
  [isSubscribed |-> sub.present,
   credits |-> IF sub.present THEN sub.credits ELSE 0,
   lang |-> IF sub.present THEN sub.lang ELSE s.lang,
   slot |-> IF sub.present THEN sub.lang ELSE s.slot]

\* an INSERT branch that leaves the credits as they were
InsertedStateKeepsCredits(s, new) ==
  [isSubscribed |-> TRUE, credits |-> s.credits, lang |-> new.lang, slot |-> new.lang]

\* the INSERT branch: setIsSubscribed(true); setCredits(payload.new.credits ?? 0);
\* if (payload.new.preferred_language) { setCurrentLanguage; window.__LANGUAGE__ }
InsertedState(s, new) ==
  [isSubscribed |-> TRUE, credits |-> new.credits, lang |-> new.lang, slot |-> new.lang]

\* if (subscription?.preferred_language) { setCurrentLanguage; window.__LANGUAGE__ }
ApplySubscription(sub) == SetAcState(SubscriptionState(AcState, sub))

\* onAuthStateChange's callback (setUser, setLoading(false)) and, when user?.id
\* changed, the subscription effect: the cleanup of the previous run
\* (channel.unsubscribe()), then checkSubscriptionAndCredits() up to its await and
\* the subscription of channel sub-and-credits-<id>
OnAuthStateChange ==
  /\ loading \/ acUser # authUser
  /\ acUser' = authUser
  /\ loading' = FALSE
  /\ IF authUser = acUser
       THEN UNCHANGED <<channels, subscriptionLoading, isSubscribed, acCredits,
                        acLanguage, acTasks>>
       ELSE /\ channels' = (channels \ {AcChan(acUser)}) \cup {AcChan(authUser)}
            /\ IF authUser = NoUser
                 THEN /\ isSubscribed' = FALSE
                      /\ acCredits' = 0
                      /\ acLanguage' = "python"
                      /\ UNCHANGED <<subscriptionLoading, acTasks>>
                 ELSE /\ subscriptionLoading' = TRUE
                      /\ acTasks' = acTasks \cup
                           {[kind |-> "check", user |-> authUser, type |-> "NONE",
                             evCredits |-> 0]}
                      /\ UNCHANGED <<isSubscribed, acCredits, acLanguage>>
  /\ UNCHANGED <<authUser, db, feed, credits, currentLanguage, isInitialized,
                 winCredits, winLanguage, winInit, renderedInit, runs, listeners,
                 debits, numSignals, ops, flips>>
  /\ UNCHANGED <<console, toastOpen>>
  /\ UNCHANGED <<langTasks, triggers>>

\* the read of checkSubscriptionAndCredits, or of a feed handler for a DELETE or
\* UPDATE event, resolves; neither is cancelled when the user changes
AcTaskDone(t, out) ==
  /\ t \in acTasks
  /\ Charge(out)
  /\ acTasks' = acTasks \ {t}
  /\ ApplySubscription(ReadRecord(t.user, out))
  /\ subscriptionLoading' = IF t.kind = "check" THEN FALSE ELSE subscriptionLoading
  /\ UNCHANGED <<authUser, db, feed, credits, currentLanguage, isInitialized,
                 winCredits, winInit, renderedInit, runs, channels, listeners,
                 debits, acUser, loading, numSignals, flips>>
  /\ UNCHANGED <<console, toastOpen>>
  /\ UNCHANGED <<langTasks, triggers>>

\* AppContent's render without the isInitialized test
SurfaceIgnoresInit ==
  IF loading \/ (acUser # NoUser /\ subscriptionLoading) THEN "wait"
  ELSE IF acUser = NoUser THEN "auth"
  ELSE IF ~isSubscribed THEN "subscribe"
  ELSE "app"

\* what AppContent renders: the spinner, AuthForm, SubscribePage or
\* SubscribedApp; its isInitialized is the prop of App's last render, and its
\* credits are never undefined once the subscription effect has run
Surface ==
  IF loading \/ (acUser # NoUser /\ (subscriptionLoading \/ ~renderedInit)) THEN "wait"
  ELSE IF acUser = NoUser THEN "auth"
  ELSE IF ~isSubscribed THEN "subscribe"
  ELSE "app"

\* ------------------------------------------------------------- change feed
\* a callback that takes one credit off instead of setting the event's value
CreditsAfterUpdateDelta(cur, new) == cur - 1

\* (payload) => updateCredits(payload.new.credits): the credits one call leaves
CreditsAfterUpdate(cur, new) == new.credits

\* the credits after n calls of the callback with the same payload
RECURSIVE CreditsAfter(_, _, _)
CreditsAfter(cur, new, n) ==
  IF n = 0 THEN cur ELSE CreditsAfter(CreditsAfterUpdate(cur, new), new, n - 1)

\* the callback runs once on every "credits" channel the event was sent to
CreditsHandler(e, targets) ==
  LET n == Cardinality({c \in targets : c.kind = "credits"})
  IN IF n > 0
       THEN updateCredits(CreditsAfter(credits, e.new, n))
       ELSE UNCHANGED <<credits, winCredits>>

\* AppContent's handler up to its first await
SubHandler(e, targets) ==
  IF \E c \in targets : c.kind = "sub"
    THEN LET c == CHOOSE x \in targets : x.kind = "sub"
         IN IF e.type \in {"DELETE", "UPDATE"}
              THEN /\ acTasks' = acTasks \cup
                        {[kind |-> "handler", user |-> c.user, type |-> e.type,
                          evCredits |-> e.new.credits]}
                   /\ UNCHANGED <<isSubscribed, acCredits, acLanguage, winLanguage>>
              ELSE IF e.user = c.user
                THEN /\ SetAcState(InsertedState(AcState, e.new))
                     /\ UNCHANGED acTasks
                ELSE UNCHANGED <<isSubscribed, acCredits, acLanguage, winLanguage,
                                 acTasks>>
    ELSE UNCHANGED <<isSubscribed, acCredits, acLanguage, winLanguage, acTasks>>

\* the socket receives the oldest event and calls the callbacks of the channels
\* it was sent to that are still subscribed
Deliver ==
  /\ feed # <<>>
  /\ LET e == Head(feed)
         targets == e.to \cap channels
     IN /\ CreditsHandler(e, targets)
        /\ SubHandler(e, targets)
  /\ feed' = Tail(feed)
  /\ UNCHANGED <<authUser, db, currentLanguage, isInitialized, winInit,
                 renderedInit, runs, channels, listeners, debits, acUser, loading,
                 subscriptionLoading, numSignals, ops, flips>>
  /\ UNCHANGED <<console, toastOpen>>
  /\ UNCHANGED <<langTasks, triggers>>

\* ------------------------------------------------------------- LanguageSelector
\* what handleLanguageChange leaves untouched
langFrame == <<authUser, credits, currentLanguage, isInitialized, winCredits,
               winInit, renderedInit, runs, channels, listeners, debits, acUser,
               loading, subscriptionLoading, isSubscribed, acCredits, acTasks,
               console, toastOpen, triggers, numSignals, flips>>

\* onChange of the select (rendered inside SubscribedApp): handleLanguageChange
\* starts with the chosen value and awaits supabase.auth.getUser()
LanguageChange(l) ==
  /\ Surface = "app"
  /\ Cardinality(langTasks) < MaxLangTasks
  /\ ops < MaxOps /\ ops' = ops + 1
  /\ langTasks' = langTasks \cup
       {[pc |-> "getUser", user |-> NoUser, lang |-> l, err |-> FALSE,
         rows |-> 0]}
  /\ UNCHANGED <<db, feed, winLanguage, acLanguage>> /\ UNCHANGED langFrame

\* getUser resolves: if (user) the update is sent, otherwise the handler ends
LangGetUser(t) ==
  /\ t \in langTasks /\ t.pc = "getUser"
  /\ langTasks' = IF authUser = NoUser
                    THEN langTasks \ {t}
                    ELSE (langTasks \ {t}) \cup
                         {[t EXCEPT !.pc = "update", !.user = authUser]}
  /\ UNCHANGED <<db, feed, winLanguage, acLanguage, ops>> /\ UNCHANGED langFrame

\* the gateway executes update({preferred_language}).eq("user_id", id): an
\* update that matches no row is no error; a failed request is (rows: the
\* rows the update changed, which the handler does not ask for)
LangUpdate(t, out) ==
  /\ t \in langTasks /\ t.pc = "update"
  /\ Charge(out)
  /\ Len(feed) < MaxFeed
  /\ IF out = "ok" /\ db[t.user].present
       THEN LET new == [db[t.user] EXCEPT !.lang = t.lang]
            IN /\ db' = [db EXCEPT ![t.user] = new]
               /\ feed' = Emit("UPDATE", t.user, new)
       ELSE UNCHANGED <<db, feed>>
  /\ langTasks' = (langTasks \ {t}) \cup
                    {[t EXCEPT !.pc = "resp", !.err = (out = "fail"),
                               !.rows = IF out = "ok" /\ db[t.user].present
                                          THEN 1 ELSE 0]}
  /\ UNCHANGED <<winLanguage, acLanguage>> /\ UNCHANGED langFrame

\* a handler that sets the language whatever the update answered
LanguageSetOnAnyAnswer(err) == TRUE

\* if (error) console.error(...) else { window.__LANGUAGE__ = ...; setLanguage(...) }
LanguageSetOn(err) == ~err

\* the response arrives; setLanguage is AppContent's setCurrentLanguage
LangResolve(t) ==
  /\ t \in langTasks /\ t.pc = "resp"
  /\ langTasks' = langTasks \ {t}
  /\ IF LanguageSetOn(t.err)
       THEN winLanguage' = t.lang /\ acLanguage' = t.lang
       ELSE UNCHANGED <<winLanguage, acLanguage>>
  /\ UNCHANGED <<db, feed, ops>> /\ UNCHANGED langFrame

\* ------------------------------------------------------------- QueueCommands
\* what the Solve controls leave untouched
solveFrame == <<authUser, db, feed, credits, currentLanguage, isInitialized,
                winCredits, winLanguage, winInit, renderedInit, runs, channels,
                listeners, debits, acUser, loading, subscriptionLoading,
                isSubscribed, acCredits, acLanguage, acTasks, console, langTasks,
                numSignals, flips>>

\* if (credits <= 0) { showToast("Out of Credits", ...); return }
MainSolveRefuses(c) == c <= 0

\* onClick of the main Solve control (rendered when screenshotCount > 0); the
\* credits are AppContent's, passed down by SubscribedApp; a failed
\* triggerProcessScreenshots shows the error toast
MainSolveClick(out) ==
  /\ Surface = "app"
  /\ ops < MaxOps /\ ops' = ops + 1
  /\ IF MainSolveRefuses(acCredits)
       THEN toastOpen' = TRUE /\ UNCHANGED triggers
       ELSE /\ triggers' = triggers + 1
            /\ toastOpen' = IF out = "fail" THEN TRUE ELSE toastOpen
  /\ UNCHANGED solveFrame

\* onClick of the Solve entry of the settings tooltip:
\* if (screenshotCount === 0) return, then triggerProcessScreenshots
TooltipSolveClick(shots, out) ==
  /\ Surface = "app"
  /\ ops < MaxOps /\ ops' = ops + 1
  /\ IF shots
       THEN /\ triggers' = triggers + 1
            /\ toastOpen' = IF out = "fail" THEN TRUE ELSE toastOpen
       ELSE UNCHANGED <<triggers, toastOpen>>
  /\ UNCHANGED solveFrame

\* the toast closes (duration 1500 ms, or dismissed): onOpenChange(false)
ToastClose ==
  /\ toastOpen
  /\ toastOpen' = FALSE
  /\ UNCHANGED ops /\ UNCHANGED triggers /\ UNCHANGED solveFrame

\* ------------------------------------------------------------- environment
envFrame == <<credits, currentLanguage, isInitialized, winCredits, winLanguage,
              winInit, renderedInit, runs, channels, listeners, debits, acUser,
              loading, subscriptionLoading, isSubscribed, acCredits, acLanguage,
              acTasks, numSignals, flips>>

\* the billing process creates, refills or deletes a record
EnvInsert(u, c, l) ==
  /\ ops < MaxOps /\ Len(feed) < MaxFeed
  /\ ~db[u].present
  /\ db' = [db EXCEPT ![u] = Row(c, l)]
  /\ feed' = Emit("INSERT", u, Row(c, l))
  /\ ops' = ops + 1
  /\ UNCHANGED authUser /\ UNCHANGED envFrame
  /\ UNCHANGED <<console, toastOpen>>
  /\ UNCHANGED <<langTasks, triggers>>

EnvUpdate(u, c) ==
  /\ ops < MaxOps /\ Len(feed) < MaxFeed
  /\ db[u].present /\ db[u].credits # c
  /\ db' = [db EXCEPT ![u].credits = c]
  /\ feed' = Emit("UPDATE", u, db'[u])
  /\ ops' = ops + 1
  /\ UNCHANGED authUser /\ UNCHANGED envFrame
  /\ UNCHANGED <<console, toastOpen>>
  /\ UNCHANGED <<langTasks, triggers>>

EnvDelete(u) ==
  /\ ops < MaxOps /\ Len(feed) < MaxFeed
  /\ db[u].present
  /\ db' = [db EXCEPT ![u] = Null]
  /\ feed' = Emit("DELETE", u, Null)
  /\ ops' = ops + 1
  /\ UNCHANGED authUser /\ UNCHANGED envFrame
  /\ UNCHANGED <<console, toastOpen>>
  /\ UNCHANGED <<langTasks, triggers>>

\* sign-in, sign-out or a switch to another account
AuthChange(u) ==
  /\ ops < MaxOps
  /\ u # authUser
  /\ authUser' = u
  /\ ops' = ops + 1
  /\ flips' = 0
  /\ UNCHANGED <<db, feed, credits, currentLanguage, isInitialized, winCredits,
                 winLanguage, winInit, renderedInit, runs, channels, listeners,
                 debits, acUser, loading, subscriptionLoading, isSubscribed,
                 acCredits, acLanguage, acTasks, numSignals>>
  /\ UNCHANGED <<console, toastOpen>>
  /\ UNCHANGED <<langTasks, triggers>>

\* ------------------------------------------------------------- specification
Next ==
  \/ AppRender
  \/ \E i \in 1..Len(runs) : RunGetUser(i)
  \/ \E i \in 1..Len(runs), out \in ReadOutcomes : RunRead(i, out)
  \/ Signal
  \/ \E d \in debits, out \in ReadOutcomes : DebitRead(d, out)
  \/ \E d \in debits, out \in ReadOutcomes : DebitUpdate(d, out)
  \/ \E d \in debits : DebitResolve(d)
  \/ OnAuthStateChange
  \/ \E t \in acTasks, out \in ReadOutcomes : AcTaskDone(t, out)
  \/ Deliver
  \/ \E u \in Users, c \in 0..MaxCredits, l \in Langs : EnvInsert(u, c, l)
  \/ \E u \in Users, c \in 0..MaxCredits : EnvUpdate(u, c)
  \/ \E u \in Users : EnvDelete(u)
  \/ \E l \in Langs : LanguageChange(l)
  \/ \E t \in langTasks : LangGetUser(t)
  \/ \E t \in langTasks, out \in ReadOutcomes : LangUpdate(t, out)
  \/ \E t \in langTasks : LangResolve(t)
  \/ \E out \in ReadOutcomes : MainSolveClick(out)
  \/ \E shots \in BOOLEAN, out \in ReadOutcomes : TooltipSolveClick(shots, out)
  \/ ToastClose
  \/ \E u \in Users \cup {NoUser} : AuthChange(u)

Spec == Init /\ [][Next]_vars

\* ------------------------------------------------------------- properties
Sigs(ds) == {d.sig : d \in ds}

\* the debit of signal s among ds (there is at most one, C4)
DebitOf(ds, s) == CHOOSE d \in ds : d.sig = s

\* no call of initializeAndSubscribe is pending or about to start
InitIdle ==
  /\ renderedInit = isInitialized
  /\ \A i \in 1..Len(runs) : runs[i].pc = "done"

\* this step is an occurrence of the success signal
IsSignalStep == numSignals' = numSignals + 1

\* this step resumes call i of initializeAndSubscribe after its initial fetch
IsRunReadStep(i) == runs[i].pc = "read" /\ runs'[i].pc = "done"

\* C1: a success signal handled while isInitialized is false (the value the
\* handler sees, and a fortiori the state) starts no debit, so it issues no
\* gateway update and changes neither the local credits nor window.__CREDITS__;
\* a debit only ever starts in the step of its own signal (nothing is queued
\* or retried later).
C1_UninitializedSignalSkipped ==
  [][ /\ \A d \in debits' :
           d.sig \notin Sigs(debits) =>
             /\ IsSignalStep /\ d.sig = numSignals' /\ d.pc = "read"
             /\ listeners[d.lid].init
      /\ IsSignalStep =>
           /\ UNCHANGED <<credits, winCredits, db>>
           /\ (~isInitialized => debits' = debits)
           /\ Cardinality(debits') - Cardinality(debits) =
                Cardinality({j \in 1..Len(listeners) : listeners[j].init})
    ]_vars

\* a signal was handled by both listeners: the one that captured
\* isInitialized = false returned, the other started the only debit
C1_Witness ==
  /\ numSignals = 1 /\ Len(listeners) = 2 /\ ~listeners[1].init
  /\ Cardinality(debits) = 1
  /\ \A d \in debits : d.lid = 2 /\ d.pc = "read"

\* C2: a debit reads the current credits N from the gateway (whatever the local
\* credits are), its update sets the record's credits to N-1 and returns N-1,
\* and when the update's response arrives the local credits and
\* window.__CREDITS__ become N-1.
C2_DebitDecrementsByOne ==
  [][ \A d \in debits :
        /\ (d.pc = "read" /\ d.sig \in Sigs(debits') /\ d \notin debits') =>
             /\ db[d.user].present
             /\ DebitOf(debits', d.sig).n = db[d.user].credits
             /\ DebitOf(debits', d.sig).pc = "update"
        /\ (d.pc = "update" /\ d \notin debits' /\ ~DebitOf(debits', d.sig).err) =>
             /\ db'[d.user].credits = d.n - 1
             /\ DebitOf(debits', d.sig).ret = d.n - 1
        /\ (d.pc = "resp" /\ ~d.err /\ d \notin debits') =>
             /\ credits' = d.n - 1 /\ winCredits' = d.n - 1
    ]_vars

\* the only stimulus was one signal; its debit read N = 1, wrote 0 and has put
\* 0 into the local credits; the feed still carries the update's event
C2_Witness ==
  /\ numSignals = 1 /\ ops = 1 /\ debits = {}
  /\ feed # <<>> /\ Head(feed).type = "UPDATE" /\ Head(feed).new.credits = 0
  /\ db[Head(feed).user].credits = 0
  /\ credits = 0 /\ winCredits = 0 /\ isInitialized

\* C3: the local credits, window.__CREDITS__ and the gateway's credits are
\* never negative.
C3_CreditsNeverNegative ==
  /\ credits >= 0 /\ winCredits >= 0
  /\ \A u \in Users : db[u].credits >= 0

\* C4: one occurrence of the success signal starts at most one debit, however
\* many listeners initializeAndSubscribe has registered, and a debit issues its
\* update once (it only moves read -> update -> response and is then dropped).
PcRank(pc) == CASE pc = "read" -> 1 [] pc = "update" -> 2 [] OTHER -> 3

C4_AtMostOneDebitPerSignal ==
  [][ /\ \A d1 \in debits', d2 \in debits' : d1.sig = d2.sig => d1 = d2
      /\ Cardinality(Sigs(debits') \ Sigs(debits)) <= 1
      /\ \A d \in debits' : d.sig \notin Sigs(debits) => d.sig = numSignals'
      /\ \A d \in debits :
           d.sig \in Sigs(debits') =>
             PcRank(DebitOf(debits', d.sig).pc) \in {PcRank(d.pc), PcRank(d.pc) + 1}
    ]_vars

\* both calls of initializeAndSubscribe have registered a listener and the one
\* signal so far has produced one update
C4_Witness ==
  /\ Len(listeners) = 2 /\ numSignals = 1
  /\ \E d \in debits : d.pc = "resp" /\ ~d.err
  /\ Cardinality(debits) = 1

\* C5: a success signal that occurs while a user is signed in and isInitialized
\* is true (the application knows the user and no initialization is under way)
\* starts a debit that reads that user's record.
C5_SignalStartsDebit ==
  [][ (IsSignalStep /\ authUser # NoUser /\ acUser = authUser
         /\ isInitialized /\ InitIdle) =>
        \E d \in debits' : d.sig = numSignals' /\ d.user = authUser /\ d.pc = "read"
    ]_vars

\* C6: while a user is signed in and known to the application, isInitialized
\* being true (initialization not under way) means it changed from false to
\* true exactly once since that user's session began.
C6_InitializedOncePerSession ==
  (authUser # NoUser /\ acUser = authUser /\ isInitialized /\ InitIdle) =>
    flips = 1

\* C7: when the initial fetch fails, isInitialized, credits and the language
\* are left as they were.
C7_FailedReadLeavesUninitialized ==
  [][ \A i \in 1..Len(runs) :
        (IsRunReadStep(i) /\ ops' = ops + 1) =>
          UNCHANGED <<isInitialized, winInit, credits, currentLanguage>>
    ]_vars

\* C8: when the user has no record, initializeAndSubscribe ends with credits 1,
\* language "python" and isInitialized true, in the state and in the window
\* slot, checkSubscriptionAndCredits ends with isSubscribed false, and neither
\* changes the gateway or starts an update.
C8_NoRecordDefaults ==
  [][ /\ \A i \in 1..Len(runs) :
           (IsRunReadStep(i) /\ ops' = ops /\ ~db[runs[i].user].present) =>
             /\ credits' = 1 /\ winCredits' = 1
             /\ currentLanguage' = "python" /\ winLanguage' = "python"
             /\ isInitialized' /\ winInit'
             /\ UNCHANGED <<db, debits>>
      /\ \A t \in acTasks :
           (t.kind = "check" /\ t \notin acTasks' /\ ops' = ops
              /\ ~db[t.user].present) =>
             /\ ~isSubscribed'
             /\ UNCHANGED <<db, debits>>
    ]_vars

\* user A has no record; both initializations have ended
C8_Witness ==
  /\ authUser = "A" /\ acUser = "A" /\ ~db["A"].present /\ ops = 0
  /\ InitIdle /\ Len(listeners) = 2 /\ listeners[2].user = "A" /\ acTasks = {}
  /\ ~isSubscribed /\ credits = 1 /\ winCredits = 1
  /\ currentLanguage = "python" /\ winLanguage = "python"
  /\ isInitialized /\ winInit

\* C9: at most one subscribed channel is scoped to the signed-in user.
C9_OneSubscriptionPerIdentity ==
  authUser # NoUser => Cardinality({c \in channels : c.user = authUser}) <= 1

\* C10: once the handler of an Updated event E has run, the credits of the
\* replica it belongs to equal E's new credits: App's on the "credits" channel,
\* AppContent's on its own channel.
C10_UpdatedEventSetsCredits ==
  [][ /\ (feed # <<>> /\ feed' = Tail(feed) /\ Head(feed).type = "UPDATE"
            /\ \E c \in Head(feed).to \cap channels : c.kind = "credits") =>
           credits' = Head(feed).new.credits
      /\ \A t \in acTasks :
           (t.kind = "handler" /\ t.type = "UPDATE" /\ t.user \in Users
              /\ t \notin acTasks' /\ ops' = ops) =>
             acCredits' = t.evCredits
    ]_vars

\* this step is the delivery of the oldest event of the feed
IsDeliverStep == feed # <<>> /\ feed' = Tail(feed)

\* the "credits" channels the oldest event of the feed is delivered to
CreditsTargets == {c \in Head(feed).to \cap channels : c.kind = "credits"}

\* the channel of AppContent the oldest event of the feed is delivered to
SubTargets == {c \in Head(feed).to \cap channels : c.kind = "sub"}

\* C11: applying a change event again changes nothing. App's callback runs
\* once per "credits" channel the event reaches (twice, once both
\* initializations have subscribed): the credits and window.__CREDITS__ after
\* all the calls are those after the first call. AppContent's handler, run
\* once more on the state it has just produced (same payload, and for a DELETE
\* or UPDATE event the same result of its re-read), gives that state again:
\* isSubscribed, credits, language and window.__LANGUAGE__ do not move.
C11_ReappliedEventChangesNothing ==
  [][ /\ (IsDeliverStep /\ CreditsTargets # {}) =>
           /\ credits' = CreditsAfterUpdate(credits, Head(feed).new)
           /\ winCredits' = credits'
           /\ CreditsAfterUpdate(credits', Head(feed).new) = credits'
      /\ (IsDeliverStep /\ Head(feed).type = "INSERT"
            /\ \E c \in SubTargets : c.user = Head(feed).user) =>
           /\ AcState' = InsertedState(AcState, Head(feed).new)
           /\ InsertedState(AcState', Head(feed).new) = AcState'
      /\ \A t \in acTasks :
           (t.kind = "handler" /\ t \notin acTasks') =>
             LET sub == IF ops' = ops THEN ReadRecord(t.user, "ok") ELSE Null
             IN /\ db' = db
                /\ AcState' = SubscriptionState(AcState, sub)
                /\ SubscriptionState(AcState', sub) = AcState'
    ]_vars

\* the event of a debit (1 -> 0) has reached both "credits" channels of user A
\* while the debit still waits for its own response: App's credits are 0
\* through the two calls of the callback
C11_Witness ==
  /\ ops = 1 /\ numSignals = 1 /\ feed = <<>>
  /\ Cardinality({c \in channels : c.kind = "credits" /\ c.user = "A"}) = 2
  /\ \E d \in debits : d.pc = "resp" /\ ~d.err /\ d.user = "A" /\ d.ret = 0
  /\ credits = 0 /\ winCredits = 0

\* C12: once the handler of a Deleted event for the signed-in user has run
\* (its re-read answered, App initialized and subscribed for that user),
\* isSubscribed is false and the credits are 0:
\* AppContent's credits, App's credits and window.__CREDITS__.
C12_DeletedEventZeroesCredits ==
  [][ \A t \in acTasks :
        (t.kind = "handler" /\ t.type = "DELETE" /\ t.user = authUser
           /\ t.user \in Users /\ acUser = authUser /\ InitIdle
           /\ (\E c \in channels : c.kind = "credits" /\ c.user = t.user)
           /\ t \notin acTasks' /\ ops' = ops /\ ~db[t.user].present) =>
          /\ ~isSubscribed'
          /\ acCredits' = 0
          /\ credits' = 0
          /\ winCredits' = 0
    ]_vars

\* C13: when an Inserted event for the signed-in user reaches AppContent's
\* channel, the handler sets isSubscribed to true and the credits, the language
\* and window.__LANGUAGE__ to the values of the event's new record.
C13_InsertedEventSetsReplica ==
  [][ (IsDeliverStep /\ Head(feed).type = "INSERT"
         /\ Head(feed).user = acUser /\ AcChan(acUser) \in SubTargets) =>
        /\ isSubscribed'
        /\ acCredits' = Head(feed).new.credits
        /\ acLanguage' = Head(feed).new.lang
        /\ winLanguage' = Head(feed).new.lang
    ]_vars

\* user A had no record when App initialized (language still the default);
\* the record {credits: 1, language: java} was inserted afterwards and its
\* event applied while checkSubscriptionAndCredits still waits for its read
C13_Witness ==
  /\ ops = 1 /\ authUser = "A" /\ acUser = "A" /\ feed = <<>>
  /\ InitIdle /\ Len(listeners) = 2 /\ listeners[1].user = "A"
  /\ currentLanguage = "python"
  /\ db["A"] = Row(1, "java")
  /\ \E t \in acTasks : t.kind = "check" /\ t.user = "A"
  /\ \A t \in acTasks : t.kind = "check"
  /\ isSubscribed /\ acCredits = 1 /\ acLanguage = "java" /\ winLanguage = "java"

\* no handler, request or event is in progress and both components have caught
\* up with the signed-in user
Quiescent ==
  /\ InitIdle /\ debits = {} /\ acTasks = {} /\ feed = <<>>
  /\ ~loading /\ acUser = authUser

\* this step ends the handler of an event for the signed-in user: App's
\* callback or AppContent's INSERT branch in the delivery, or the re-read of
\* AppContent's DELETE/UPDATE branch answering
IsAppliedEventStep ==
  \/ /\ IsDeliverStep /\ Head(feed).user = authUser
     /\ \/ \E c \in CreditsTargets : c.user = authUser
        \/ Head(feed).type = "INSERT" /\ AcChan(authUser) \in SubTargets
  \/ \E t \in acTasks : /\ t.kind = "handler" /\ t.user = authUser
                        /\ t \notin acTasks' /\ ops' = ops

\* C14: after every applied Inserted, Updated or Deleted event for the
\* signed-in user that leaves no handler mid-execution, the published slot
\* equals the store: window.__IS_INITIALIZED__ is isInitialized,
\* window.__CREDITS__ is the credits and window.__LANGUAGE__ is the language,
\* of App's states and of AppContent's.
C14_SlotMirrorsStore ==
  [][ (authUser \in Users /\ IsAppliedEventStep /\ Quiescent' /\ isInitialized') =>
        /\ winInit' = isInitialized'
        /\ winCredits' = credits' /\ winCredits' = acCredits'
        /\ winLanguage' = currentLanguage' /\ winLanguage' = acLanguage'
    ]_vars

\* the local replica: App's states, AppContent's and the published slot
replica == <<credits, currentLanguage, winCredits, winLanguage,
             isSubscribed, acCredits, acLanguage>>

\* C15: when AppContent goes from user A to user B, exactly one channel is
\* left subscribed and it is B's; and while B is the user, neither the
\* delivery of an event of another user nor the end of a handler started for
\* another user's event changes the replica.
C15_SwitchIsolatesOldIdentity ==
  [][ /\ (acUser \in Users /\ acUser' \in Users /\ acUser' # acUser) =>
           /\ Cardinality(channels') = 1
           /\ \A c \in channels' : c.user = acUser'
      /\ (acUser = authUser /\ authUser \in Users) =>
           /\ (IsDeliverStep /\ Head(feed).user \in Users \ {authUser}) =>
                UNCHANGED replica
           /\ \A t \in acTasks :
                (t.kind = "handler" /\ t.user \in Users \ {authUser}
                   /\ t \notin acTasks') => UNCHANGED replica
    ]_vars

\* C16: when AppContent goes from user A to user B, A's channel is no longer
\* subscribed and isInitialized has been reset to false by the time B's
\* channel is subscribed; and in no state are channels scoped to two different
\* users subscribed together.
C16_NoTwoIdentitiesSubscribed ==
  [][ /\ \A c1 \in channels', c2 \in channels' :
           (c1.user \in Users /\ c2.user \in Users) => c1.user = c2.user
      /\ (acUser \in Users /\ acUser' \in Users /\ acUser' # acUser) =>
           /\ \A c \in channels' : c.user # acUser
           /\ ~isInitialized' /\ ~winInit'
    ]_vars

\* this step re-runs the initialization effect (its dependency isInitialized
\* changed), after the cleanup of its previous run
IsEffectRerunStep == Len(runs') = Len(runs) + 1

\* C17: when the initialization effect re-runs after a run that subscribed a
\* channel and registered a listener, the channel is unsubscribed, the
\* listener removed, and isInitialized and window.__IS_INITIALIZED__ are false.
C17_RerunCleansUp ==
  [][ (IsEffectRerunStep /\ listeners # <<>>) =>
        /\ \A c \in channels' : c.kind # "credits"
        /\ listeners' = <<>>
        /\ ~isInitialized' /\ ~winInit'
    ]_vars

\* C18: with the gateway untouched (no outside change, no failure, no signal),
\* the second initialization for the same user ends with the credits, the
\* language and isInitialized the first one produced, and what is registered
\* then is one listener and one "credits" channel: nothing of the first
\* initialization is left.
C18_ReinitializationReproduces ==
  [][ (Len(runs) = 2 /\ IsRunReadStep(2) /\ ops' = 0
         /\ runs[1].user = runs[2].user /\ runs[2].user \in Users) =>
        /\ UNCHANGED <<credits, currentLanguage, isInitialized,
                       winCredits, winLanguage, winInit>>
        /\ Len(listeners') = 1
        /\ Cardinality({c \in channels' : c.kind = "credits"}) = 1
    ]_vars

\* this step ends debit d on a failure: its read failed, or the response of
\* its failed update arrived
IsDebitFailureStep(d) ==
  /\ d \in debits /\ d \notin debits'
  /\ \/ d.pc = "read" /\ ops' = ops + 1
     \/ d.pc = "resp" /\ d.err

\* C19: when the read or the update of a debit fails, App's credits and
\* window.__CREDITS__ keep their values, the failure is reported (logged with
\* console.error and shown through the toast, the one way App has to tell
\* anyone), and the debit ends there: it is not started again.
C19_DebitFailureReported ==
  [][ \A d \in debits :
        IsDebitFailureStep(d) =>
          /\ UNCHANGED <<credits, winCredits>>
          /\ console' \in {"error: no subscription", "error: updating credits"}
          /\ toastOpen'
          /\ Sigs(debits') = Sigs(debits) \ {d.sig}
    ]_vars

\* C20: when the read of a debit answers that the user has no record, the
\* debit ends in that step: it never reaches its update (nothing is written
\* to the gateway, no event is emitted) and App's credits and
\* window.__CREDITS__ keep their values.
C20_NoRecordAbortsDebit ==
  [][ \A d \in debits :
        (d.pc = "read" /\ d \notin debits' /\ ops' = ops /\ ~db[d.user].present) =>
          /\ d.sig \notin Sigs(debits')
          /\ UNCHANGED <<db, feed, credits, winCredits>>
    ]_vars

\* user A has no record; the one signal started a debit whose read (the only
\* request that could log this error, none having failed) found nothing
C20_Witness ==
  /\ ops = 1 /\ numSignals = 1 /\ debits = {}
  /\ authUser = "A" /\ ~db["A"].present /\ feed = <<>>
  /\ console = "error: no subscription"
  /\ credits = 1 /\ winCredits = 1

\* C21: when the response of a debit's update arrives after the user the debit
\* was started for has stopped being the signed-in user, the result is
\* dropped: App's credits and window.__CREDITS__ keep their values.
C21_LateCompletionDiscarded ==
  [][ \A d \in debits :
        (d.pc = "resp" /\ d \notin debits' /\ d.n > 0 /\ d.user # authUser) =>
          UNCHANGED <<credits, winCredits>>
    ]_vars

\* C22: the update of a debit writes the credits its own read returned minus
\* one, whatever the record holds by then (the read and the update are two
\* requests, and other debits run between them); so two debits that both
\* read N both write N-1 and the record loses only one credit for two signals.
C22_UpdateWritesReadMinusOne ==
  [][ \A d \in debits :
        (d.pc = "update" /\ d \notin debits' /\ ops' = ops /\ db[d.user].present) =>
          /\ db'[d.user].credits = d.n - 1
          /\ \E e \in debits' : e.sig = d.sig /\ e.pc = "resp" /\ e.ret = d.n - 1
    ]_vars

\* two signals, two debits of user A: both read 1, both updates executed and
\* returned 0, and the record holds 0, not -1
C22_Witness ==
  /\ numSignals = 2 /\ ops = 2
  /\ \E d1 \in debits, d2 \in debits :
       /\ d1.sig # d2.sig /\ d1.user = "A" /\ d2.user = "A"
       /\ d1.pc = "resp" /\ d2.pc = "resp" /\ ~d1.err /\ ~d2.err
       /\ d1.n = 1 /\ d2.n = 1 /\ d1.ret = 0 /\ d2.ret = 0
  /\ db["A"].credits = 0

\* C25: while AppContent has a user and isInitialized is false, what is
\* rendered is the spinner; SubscribedApp (which shows the credits) is not
\* rendered.
C25_WaitUntilInitialized ==
  (acUser \in Users /\ ~isInitialized) => Surface = "wait"

\* user A is known to AppContent and subscribed, the subscription check has
\* answered, and only the missing initialization keeps the spinner up
C25_Witness ==
  /\ acUser = "A" /\ ~isInitialized /\ ~loading /\ ~subscriptionLoading
  /\ isSubscribed /\ Surface = "wait"

\* this step ends debit d with the write-back of the credits its update returned
IsWriteBackStep(d) ==
  d \in debits /\ d.pc = "resp" /\ ~d.err /\ d \notin debits'

\* this step ends call t of handleLanguageChange on an update without error
IsLanguageSetStep(t) ==
  t \in langTasks /\ t.pc = "resp" /\ ~t.err /\ t \notin langTasks'

\* this step is one of the initialization sequencer (a call of
\* initializeAndSubscribe sets the values) or of the change feed listener and
\* AppContent's subscription effect (an event is delivered, a read of
\* AppContent answers, AppContent takes over the new user)
IsSequencerOrFeedStep ==
  \/ \E i \in 1..Len(runs) : runs[i].pc # "done" /\ runs'[i].pc = "done"
  \/ IsDeliverStep
  \/ acTasks' # acTasks
  \/ acUser' # acUser

\* C23 as stated: the credits, the language and isSubscribed, of App and of
\* AppContent, change only in steps of the initialization sequencer and of the
\* change feed listener; a debit, a language selection and a render leave
\* them as they are.
C23_OnlySequencerAndFeedWrite ==
  [][ IsSequencerOrFeedStep \/
      UNCHANGED <<credits, currentLanguage, isSubscribed, acCredits, acLanguage>>
    ]_vars

\* C23 amended: outside the initialization sequencer and the change feed
\* listener, the only writers are the debit, which writes back the credits its
\* update returned into App's credits (and window.__CREDITS__), and the
\* language selector, which after an update without error sets AppContent's
\* language (and window.__LANGUAGE__) to the chosen value. A failed debit, a
\* failed language update, a render and the Solve controls change none of them.
C23_WritersOfTheReplica ==
  [][ \/ IsSequencerOrFeedStep
      \/ UNCHANGED <<credits, currentLanguage, isSubscribed, acCredits, acLanguage>>
      \/ \E d \in debits :
           /\ IsWriteBackStep(d)
           /\ credits' = d.ret /\ winCredits' = d.ret
           /\ UNCHANGED <<currentLanguage, isSubscribed, acCredits, acLanguage>>
      \/ \E t \in langTasks :
           /\ IsLanguageSetStep(t)
           /\ acLanguage' = t.lang /\ winLanguage' = t.lang
           /\ UNCHANGED <<credits, currentLanguage, isSubscribed, acCredits>>
    ]_vars

\* the one stimulus of the run was a choice of python by user A, whose record
\* said java: the update has been executed and answered, its event is still on
\* the socket, and AppContent's language and window.__LANGUAGE__ are python
C23_Witness ==
  /\ ops = 1 /\ langTasks = {} /\ acTasks = {}
  /\ feed # <<>> /\ Head(feed).type = "UPDATE" /\ Head(feed).new.lang = "python"
  /\ db["A"] = Head(feed).new
  /\ acLanguage = "python" /\ winLanguage = "python"

\* C24 as stated: the chosen value is the local language from the moment
\* handleLanguageChange is called, without waiting for the update: while a
\* call is in progress AppContent's language and window.__LANGUAGE__ are its
\* value.
C24_LanguageSetOptimistically ==
  \A t \in langTasks : acLanguage = t.lang /\ winLanguage = t.lang

\* C24 amended: handleLanguageChange sends an update of the preferred language
\* of the user getUser returned and does not touch the local language until
\* the answer: the steps that start the call, resolve getUser and execute the
\* update leave AppContent's language and window.__LANGUAGE__ alone; the
\* answer sets both to the chosen value if there was no error and leaves both
\* alone if there was. The UPDATE event of that update, delivered later with
\* the same value, changes neither, and nor does the re-read its handler
\* makes when the record still holds that value.
C24_LanguageSetAfterUpdate ==
  [][ /\ (langTasks' # langTasks /\ \A t \in langTasks : t.pc # "resp") =>
           UNCHANGED <<acLanguage, winLanguage, currentLanguage>>
      /\ \A t \in langTasks :
           (t.pc = "update" /\ t \notin langTasks' /\ ops' = ops
              /\ db[t.user].present) => db'[t.user].lang = t.lang
      /\ \A t \in langTasks :
           (t.pc = "resp" /\ t \notin langTasks') =>
             IF t.err THEN UNCHANGED <<acLanguage, winLanguage>>
                      ELSE acLanguage' = t.lang /\ winLanguage' = t.lang
      /\ (IsDeliverStep /\ Head(feed).type = "UPDATE"
            /\ Head(feed).new.lang = acLanguage) =>
           UNCHANGED <<acLanguage, winLanguage>>
      /\ \A t \in acTasks :
           (t.kind = "handler" /\ t.type = "UPDATE" /\ t \notin acTasks'
              /\ ops' = ops /\ t.user \in Users /\ db[t.user].present
              /\ db[t.user].lang = acLanguage /\ winLanguage = acLanguage) =>
             UNCHANGED <<acLanguage, winLanguage>>
    ]_vars

\* the update of a call has been executed (the record of user A holds the
\* chosen value) and its answer is on the way, while AppContent's language
\* and window.__LANGUAGE__ still hold the previous value
C24_Witness ==
  \E t \in langTasks :
    /\ t.pc = "resp" /\ ~t.err /\ t.user = "A"
    /\ db["A"].present /\ db["A"].lang = t.lang
    /\ acLanguage # t.lang /\ winLanguage # t.lang

\* C26: a call of initializeAndSubscribe that reads the record of its user has
\* published the credits and the language it read (or the defaults 1 and
\* python) by the time it sets isInitialized and window.__IS_INITIALIZED__,
\* and it is the only such read of the session: with the session untouched
\* (no outside stimulus so far) no earlier call has read the record of the
\* same user.
C26_OneReadPublishedBeforeInitialized ==
  [][ \A i \in 1..Len(runs) :
        (IsRunReadStep(i) /\ ops' = 0) =>
          LET sub == db[runs[i].user]
          IN /\ winInit' /\ isInitialized'
             /\ winCredits' = (IF sub.present THEN sub.credits ELSE 1)
             /\ winLanguage' = (IF sub.present THEN sub.lang ELSE "python")
             /\ \A j \in 1..Len(runs) :
                  j # i => ~(runs[j].pc = "done" /\ runs[j].user = runs[i].user)
    ]_vars

\* C27 as stated: when the write-back of a debit, or the delivery of an event to the
\* "credits" channel of the signed-in user, leaves nothing in progress (no
\* request in flight, no event undelivered), App's credits and
\* window.__CREDITS__ are the credits of the user's record: a write-back that
\* arrives after a later event does not leave them at its older value.
C27_QuiescentCreditsMatchGateway ==
  [][ ( /\ \/ \E d \in debits : IsWriteBackStep(d) /\ d.user = authUser
           \/ IsDeliverStep /\ \E c \in CreditsTargets : c.user = authUser
        /\ Quiescent' /\ langTasks' = {}
        /\ authUser \in Users /\ db'[authUser].present ) =>
        /\ credits' = db'[authUser].credits
        /\ winCredits' = db'[authUser].credits
    ]_vars

\* C27 amended: there is no version check between the two sources. An event
\* delivered to a "credits" channel sets App's credits and window.__CREDITS__
\* to its new credits; the write-back of a debit sets them to the credits its
\* update returned, also when events applied since have moved the record on;
\* nothing else but an initialization writes them. The last write the store
\* saw wins, so when nothing is in progress the credits are those of the last
\* write, which after a late write-back is not what the record holds.
C27_LastWriteWins ==
  [][ /\ \A d \in debits :
           IsWriteBackStep(d) => credits' = d.ret /\ winCredits' = d.ret
      /\ (IsDeliverStep /\ CreditsTargets # {}) =>
           credits' = Head(feed).new.credits /\ winCredits' = Head(feed).new.credits
      /\ \/ UNCHANGED <<credits, winCredits>>
         \/ IsDeliverStep /\ CreditsTargets # {}
         \/ \E d \in debits : IsWriteBackStep(d)
         \/ \E i \in 1..Len(runs) : runs[i].pc # "done" /\ runs'[i].pc = "done"
    ]_vars

\* one signal and one refill: the debit of user A wrote 0 into the record,
\* the billing process then set it to 1 and that event was applied, and the
\* response of the debit came last; nothing is in progress, the record holds 1
\* and App's credits and window.__CREDITS__ hold 0
C27_Witness ==
  /\ ops = 2 /\ numSignals = 1 /\ console = "warn: before initialization"
  /\ Quiescent /\ langTasks = {} /\ authUser = "A"
  /\ Len(listeners) = 2 /\ listeners[1].user = "A" /\ listeners[2].user = "A"
  /\ db["A"] = Row(1, "java")
  /\ credits = 0 /\ winCredits = 0

\* C28: whenever nothing is in progress, isInitialized is true and a user is
\* signed in, App's credits (and window.__CREDITS__) equal AppContent's
\* credits, the value shown and used to gate Solve.
C28_TwoCopiesAgree ==
  (Quiescent /\ langTasks = {} /\ isInitialized /\ authUser \in Users) =>
    (credits = acCredits /\ winCredits = acCredits)

\* C29: every debit a signal starts is for the user signed in when the signal
\* is handled (the user AppContent also knows by then): after a switch from A
\* to B no signal starts a read or an update of A's record.
C29_DebitTargetsCurrentUser ==
  [][ (IsSignalStep /\ authUser \in Users /\ acUser = authUser) =>
        \A d \in debits' \ debits : d.user = authUser
    ]_vars

\* C30: triggerProcessScreenshots is never called from the command bar while
\* the credits it displays (AppContent's) are 0 or less: neither the main
\* Solve control nor the Solve entry of the settings tooltip starts it.
C30_NoSolveWithoutCredits ==
  [][ triggers' # triggers => acCredits > 0 ]_vars

\* C31: a call of handleLanguageChange whose update answered with an error,
\* or that found no signed-in user, leaves AppContent's language and
\* window.__LANGUAGE__ as they were; and so does a call whose update changed
\* no record: the two are set only after an update that changed the record
\* of the user.
C31_LanguageSetOnlyAfterChangedRecord ==
  [][ \A t \in langTasks :
        /\ (t.pc = "resp" /\ t \notin langTasks' /\ t.err) =>
             UNCHANGED <<acLanguage, winLanguage>>
        /\ (t.pc = "getUser" /\ t \notin langTasks' /\ authUser = NoUser) =>
             /\ langTasks' = langTasks \ {t}
             /\ UNCHANGED <<acLanguage, winLanguage, db, feed>>
        /\ (t.pc = "resp" /\ t \notin langTasks' /\ t.rows = 0) =>
             UNCHANGED <<acLanguage, winLanguage>>
    ]_vars

====
